---- MODULE Spec2Model ----
(***************************************************************************)
(* State-machine model of the diskspice scanner                            *)
(* (DiskSpice/Scanner/diskspice-scanner/src): the traversal thread running  *)
(* Scanner::scan / compute_directory_totals with its recursion unfolded    *)
(* into an explicit stack, the check_control / process_commands            *)
(* checkpoint, the output writer, and the stdin reader thread of main.rs   *)
(* that feeds the bounded control channel.                                 *)
(***************************************************************************)
EXTENDS Naturals, Sequences, FiniteSets, TLC

VARIABLES
    fs,               \* the file system being scanned (fixed during a run)
    mode,             \* entry point: "main", "scan_path" or "totals"
    pc,               \* position of the traversal thread
    site,             \* which process_commands call of check_control is running
    stack,            \* active scan_directory calls, innermost last
    ret,              \* value returned by the last scan_directory call
    result,           \* outcome of the entry point
    paused,           \* Scanner.paused
    cancelled,        \* Scanner.cancelled
    chan,             \* the control channel (tx -> control_rx)
    cmds,             \* process_commands: collected commands not yet applied
    events,           \* lines written to Scanner.writer, in order
    pending_entries,  \* Scanner.pending_entries
    flushed,          \* number of written lines that an explicit flush pushed out
    nread,            \* lines the stdin thread has read
    held,             \* the command the stdin thread is sending: <<c>>, or <<>>
    sent              \* history: commands accepted by the channel, in order

vars == <<fs, mode, pc, site, stack, ret, result, paused, cancelled, chan, cmds,
          events, pending_entries, flushed, nread, held, sent>>

\* Bound of the model: how many stdin lines the reader thread reads in a run.
MaxLines == 3

\* bounded(16)
ChannelCapacity == 16

\* flush_batch_size: 256
FlushBatchSize == 256

(***************************************************************************)
(* File systems.  A node is named by its file name; a path is the sequence *)
(* of names from the root.  list[d] is what the ReadDir iterator of d      *)
(* yields, in order; ReadErr stands for an Err(e) item.                    *)
(***************************************************************************)
Root == "r"

ReadErr == "<err>"

\* a.txt and sub/b.bin as in the test, plus a second level and a trailing file
FsNested ==
    [exists |-> TRUE,
     kind |-> [n \in {"r", "a.txt", "sub", "b.bin", "deep", "c.rs", "z"} |->
                 IF n \in {"r", "sub", "deep"} THEN "dir" ELSE "file"],
     len |-> [n \in {"r", "a.txt", "sub", "b.bin", "deep", "c.rs", "z"} |->
                 CASE n = "a.txt" -> 10 [] n = "b.bin" -> 20 [] n = "c.rs" -> 5
                   [] n = "z" -> 3 [] OTHER -> 64],
     list |-> [n \in {"r", "sub", "deep"} |->
                 CASE n = "r" -> <<"a.txt", "sub", "z">>
                   [] n = "sub" -> <<"b.bin", "deep">>
                   [] OTHER -> <<"c.rs">>],
     target |-> [n \in {} |-> ""],
     unreadable |-> {},
     nometa |-> {}]

\* target/inside.txt and link -> target as in the test, plus loop -> r (a cycle)
FsSymlink ==
    [exists |-> TRUE,
     kind |-> [n \in {"r", "target", "inside.txt", "link", "loop"} |->
                 CASE n \in {"r", "target"} -> "dir"
                   [] n \in {"link", "loop"} -> "symlink"
                   [] OTHER -> "file"],
     len |-> [n \in {"r", "target", "inside.txt", "link", "loop"} |->
                 CASE n = "inside.txt" -> 8 [] n = "link" -> 6 [] n = "loop" -> 2
                   [] OTHER -> 64],
     list |-> [n \in {"r", "target"} |->
                 IF n = "r" THEN <<"target", "link", "loop">> ELSE <<"inside.txt">>],
     target |-> [n \in {"link", "loop"} |-> IF n = "link" THEN "target" ELSE "r"],
     unreadable |-> {},
     nometa |-> {}]

\* a listing that yields an Err item, a directory that cannot be listed, an
\* entry whose metadata cannot be retrieved, and a readable file after them
FsErrors ==
    [exists |-> TRUE,
     kind |-> [n \in {"r", "locked", "x", "gone", "f"} |->
                 IF n \in {"r", "locked"} THEN "dir" ELSE "file"],
     len |-> [n \in {"r", "locked", "x", "gone", "f"} |->
                 CASE n = "x" -> 9 [] n = "gone" -> 4 [] n = "f" -> 7 [] OTHER -> 64],
     list |-> [n \in {"r", "locked"} |->
                 IF n = "r" THEN <<ReadErr, "locked", "gone", "f">> ELSE <<"x">>],
     target |-> [n \in {} |-> ""],
     unreadable |-> {"locked"},
     nometa |-> {"gone"}]

\* the root path exists but is a regular file
FsFileRoot ==
    [exists |-> TRUE,
     kind |-> [n \in {"r"} |-> "file"],
     len |-> [n \in {"r"} |-> 4],
     list |-> [n \in {} |-> <<>>],
     target |-> [n \in {} |-> ""],
     unreadable |-> {},
     nometa |-> {}]

\* the root is an empty directory
FsEmpty ==
    [exists |-> TRUE,
     kind |-> [n \in {"r"} |-> "dir"],
     len |-> [n \in {"r"} |-> 64],
     list |-> [n \in {"r"} |-> <<>>],
     target |-> [n \in {} |-> ""],
     unreadable |-> {},
     nometa |-> {}]

\* the root path does not exist
FsMissing ==
    [exists |-> FALSE,
     kind |-> [n \in {} |-> ""],
     len |-> [n \in {} |-> 0],
     list |-> [n \in {} |-> <<>>],
     target |-> [n \in {} |-> ""],
     unreadable |-> {},
     nometa |-> {}]

FileSystems == {FsNested, FsSymlink, FsErrors, FsFileRoot, FsEmpty, FsMissing}

Nodes(f) == DOMAIN f.kind

\* mutant: the existence test of the root path always succeeds
PathExistsAlways(f) == TRUE

\* Path::exists on the root path
PathExists(f) == f.exists

\* entry.file_type().is_symlink()
IsSymlink(f, n) == f.kind[n] = "symlink"

\* entry.metadata().is_dir(): DirEntry::metadata does not follow symlinks
IsDir(f, n) == f.kind[n] = "dir"

\* the node a path component names once symlinks are followed (as read_dir does)
Resolve(f, n) == IF f.kind[n] = "symlink" THEN f.target[n] ELSE n

\* fs::read_dir(path) succeeds
ReadDirOk(f, n) ==
    /\ n \in Nodes(f)
    /\ f.kind[Resolve(f, n)] = "dir"
    /\ Resolve(f, n) \notin f.unreadable

\* the items the ReadDir iterator yields
ReadDirItems(f, n) == f.list[Resolve(f, n)]

\* entry.metadata() succeeds
MetadataOk(f, n) == n \notin f.nometa

(***************************************************************************)
(* Entry points and their Scanner configuration.                           *)
(***************************************************************************)
Modes == {"main", "scan_path", "totals"}

\* control_rx is Some only for Scanner::with_control_channel (main.rs)
HasControl(m) == m = "main"

\* the emit_entries argument given to the root scan_directory call
EmitEntries(m) == m # "totals"

(***************************************************************************)
(* Scan messages.                                                          *)
(***************************************************************************)
EntryMsg(path, size, is_dir, is_symlink, item_count) ==
    [type |-> "entry", path |-> path, size |-> size, is_dir |-> is_dir,
     is_symlink |-> is_symlink, item_count |-> item_count]

FolderCompleteMsg(path, total_size) ==
    [type |-> "complete", path |-> path, total_size |-> total_size]

ErrorMsg(path, message) == [type |-> "error", path |-> path, message |-> message]

StatusMsg(status) == [type |-> "status", status |-> status]

DoneMsg(total_size, total_items) ==
    [type |-> "done", total_size |-> total_size, total_items |-> total_items]

(***************************************************************************)
(* The writer.                                                             *)
(***************************************************************************)
\* mutant: forced messages go straight to the sink and overtake the Entry
\* lines still held in the buffer
EmitOvertaking(message) ==
    /\ events' = SubSeq(events, 1, Len(events) - pending_entries)
                 \o <<message>>
                 \o SubSeq(events, Len(events) - pending_entries + 1, Len(events))
    /\ pending_entries' = pending_entries
    /\ flushed' = flushed + 1

\* write_message(message, true), reached through emit and emit_error
Emit(message) ==
    /\ events' = Append(events, message)
    /\ pending_entries' = 0
    /\ flushed' = Len(events) + 1

\* mutant: the buffer is flushed only once the count exceeds the batch size
EmitEntryLateFlush(message) ==
    /\ events' = Append(events, message)
    /\ IF pending_entries + 1 > FlushBatchSize
          THEN pending_entries' = 0 /\ flushed' = Len(events) + 1
          ELSE pending_entries' = pending_entries + 1 /\ flushed' = flushed

\* write_message(Entry(entry), false), reached through emit_entry
EmitEntry(message) ==
    /\ events' = Append(events, message)
    /\ IF pending_entries + 1 >= FlushBatchSize
          THEN pending_entries' = 0 /\ flushed' = Len(events) + 1
          ELSE pending_entries' = pending_entries + 1 /\ flushed' = flushed

NoEmit == UNCHANGED <<events, pending_entries, flushed>>

(***************************************************************************)
(* Control commands and the stdin reader thread (main.rs).                 *)
(***************************************************************************)
Pause == [op |-> "Pause", path |-> ""]

Resume == [op |-> "Resume", path |-> ""]

Cancel == [op |-> "Cancel", path |-> ""]

Refresh(path) == [op |-> "Refresh", path |-> path]

\* the lines the stdin reader may read
Lines == {"pause", " resume", "cancel ", "refresh:/r/sub", "stop"}

RECURSIVE TrimStart(_)
TrimStart(s) ==
    IF Len(s) > 0 /\ SubSeq(s, 1, 1) = " " THEN TrimStart(SubSeq(s, 2, Len(s))) ELSE s

RECURSIVE TrimEnd(_)
TrimEnd(s) ==
    IF Len(s) > 0 /\ SubSeq(s, Len(s), Len(s)) = " "
       THEN TrimEnd(SubSeq(s, 1, Len(s) - 1))
       ELSE s

\* str::trim
Trim(s) == TrimEnd(TrimStart(s))

\* the match on cmd.trim(): <<c>> for Some(c), <<>> for None
ParseLine(line) ==
    LET s == Trim(line) IN
    CASE s = "pause" -> <<Pause>>
      [] s = "resume" -> <<Resume>>
      [] s = "cancel" -> <<Cancel>>
      [] s \notin {"pause", "resume", "cancel"} /\ Len(s) >= 8
            /\ SubSeq(s, 1, 8) = "refresh:" -> <<Refresh(SubSeq(s, 9, Len(s)))>>
      [] OTHER -> <<>>

\* the reader loop up to the send: read one of the lines L and parse it; an
\* unrecognised line is ignored.  The thread ends with the process, when
\* scan returns in main, and reads no more than max lines in a run.
StdinRead(L, max) ==
    /\ HasControl(mode)
    /\ pc # "done"
    /\ held = <<>>
    /\ nread < max
    /\ \E line \in L :
          /\ nread' = nread + 1
          /\ held' = ParseLine(line)
    /\ UNCHANGED <<fs, mode, pc, site, stack, ret, result, paused, cancelled, chan,
                   cmds, events, pending_entries, flushed, sent>>

StdinLine == StdinRead(Lines, MaxLines)

\* mutant: the channel takes a command whatever it already holds
SendReadyUnbounded(q) == TRUE

\* a bounded(16) channel accepts a send only while it holds fewer than 16
SendReady(q) == Len(q) < ChannelCapacity

\* stdin_tx.send(c): blocks while the channel is full, then enqueues c
StdinSend ==
    /\ HasControl(mode)
    /\ pc # "done"
    /\ held # <<>>
    /\ SendReady(chan)
    /\ chan' = Append(chan, held[1])
    /\ sent' = Append(sent, held[1])
    /\ held' = <<>>
    /\ UNCHANGED <<fs, mode, pc, site, stack, ret, result, paused, cancelled, cmds,
                   events, pending_entries, flushed, nread>>

(***************************************************************************)
(* check_control and process_commands.                                     *)
(***************************************************************************)
\* the status string a command is acknowledged with
StatusOf(cmd) ==
    CASE cmd.op = "Pause" -> "paused"
      [] cmd.op = "Resume" -> "resumed"
      [] cmd.op = "Cancel" -> "cancelled"
      [] OTHER -> "refreshing:" \o cmd.path

\* mutant: a Refresh also clears the pause flag
ApplyCommandRefreshResumes(cmd, p, c) ==
    CASE cmd.op = "Pause" -> [paused |-> TRUE, cancelled |-> c]
      [] cmd.op = "Resume" -> [paused |-> FALSE, cancelled |-> c]
      [] cmd.op = "Cancel" -> [paused |-> p, cancelled |-> TRUE]
      [] OTHER -> [paused |-> FALSE, cancelled |-> c]

\* the flag stores of one arm of the match in process_commands
ApplyCommand(cmd, p, c) ==
    CASE cmd.op = "Pause" -> [paused |-> TRUE, cancelled |-> c]
      [] cmd.op = "Resume" -> [paused |-> FALSE, cancelled |-> c]
      [] cmd.op = "Cancel" -> [paused |-> p, cancelled |-> TRUE]
      [] OTHER -> [paused |-> p, cancelled |-> c]

\* mutant: the collected commands are kept newest first
PushFront(q, cmd) == <<cmd>> \o q

\* cmds.push(cmd)
Push(q, cmd) == Append(q, cmd)

\* mutant: a pause applied by the last process_commands call also stops the caller
CheckControlResultStopsOnPause(p, c) == ~c /\ ~p

\* the value of the last line of check_control
CheckControlResult(p, c) == ~c

Top == stack[Len(stack)]

SetTop(frame) == [stack EXCEPT ![Len(stack)] = frame]

\* mutant: a stop at an entry checkpoint skips the entry instead of returning
CheckReturnSkipsEntry(b) ==
    /\ pc' = IF b THEN (IF Top.at = "start" THEN "readdir" ELSE "entry")
             ELSE (IF Top.at = "start" THEN "return" ELSE "loop")
    /\ ret' = IF b THEN ret
              ELSE IF Top.at = "start" THEN <<0, 0>>
              ELSE <<Top.total_size, Top.total_items>>
    /\ UNCHANGED <<stack, site>>

\* mutant: a stopped call returns (0, 0) at either checkpoint
CheckReturnDropsPartial(b) ==
    /\ pc' = IF b THEN (IF Top.at = "start" THEN "readdir" ELSE "entry") ELSE "return"
    /\ ret' = IF b THEN ret ELSE <<0, 0>>
    /\ UNCHANGED <<stack, site>>

\* check_control returns b to the checkpoint of the innermost scan_directory
\* call: the one at its start, or the one before an entry is processed
CheckReturn(b) ==
    /\ pc' = IF b THEN (IF Top.at = "start" THEN "readdir" ELSE "entry") ELSE "return"
    /\ ret' = IF b THEN ret
              ELSE IF Top.at = "start" THEN <<0, 0>>
              ELSE <<Top.total_size, Top.total_items>>
    /\ UNCHANGED <<stack, site>>

\* check_control up to its first process_commands call
CheckControl ==
    /\ pc = "check"
    /\ IF cancelled
          THEN CheckReturn(FALSE)
          ELSE /\ pc' = "recv"
               /\ site' = IF paused THEN "spin" ELSE "final"
               /\ UNCHANGED <<stack, ret>>
    /\ UNCHANGED <<fs, mode, result, paused, cancelled, chan, cmds, events,
                   pending_entries, flushed, nread, held, sent>>

\* one rx.try_recv() of the collecting loop
TryRecv ==
    /\ pc = "recv"
    /\ IF HasControl(mode) /\ chan # <<>>
          THEN /\ cmds' = Push(cmds, Head(chan))
               /\ chan' = Tail(chan)
               /\ pc' = pc
          ELSE /\ pc' = "apply"
               /\ UNCHANGED <<chan, cmds>>
    /\ UNCHANGED <<fs, mode, site, stack, ret, result, paused, cancelled, events,
                   pending_entries, flushed, nread, held, sent>>

\* one iteration of "for cmd in commands"
ApplyNext ==
    /\ pc = "apply"
    /\ cmds # <<>>
    /\ LET cmd == Head(cmds)
           flags == ApplyCommand(cmd, paused, cancelled) IN
       /\ paused' = flags.paused
       /\ cancelled' = flags.cancelled
       /\ Emit(StatusMsg(StatusOf(cmd)))
    /\ cmds' = Tail(cmds)
    /\ UNCHANGED <<fs, mode, pc, site, stack, ret, result, chan, nread, held, sent>>

\* process_commands returns into check_control: inside the pause loop (test
\* cancelled, sleep, test paused again) or on its last line
ProcessCommandsReturn ==
    /\ pc = "apply"
    /\ cmds = <<>>
    /\ IF site = "spin"
          THEN IF cancelled
                  THEN CheckReturn(FALSE)
                  ELSE /\ pc' = "recv"
                       /\ site' = IF paused THEN "spin" ELSE "final"
                       /\ UNCHANGED <<stack, ret>>
          ELSE CheckReturn(CheckControlResult(paused, cancelled))
    /\ UNCHANGED <<fs, mode, result, paused, cancelled, chan, cmds, events,
                   pending_entries, flushed, nread, held, sent>>

(***************************************************************************)
(* scan, compute_directory_totals and scan_directory.                      *)
(***************************************************************************)
\* the locals of a scan_directory call at its first line
NewFrame(path) ==
    [path |-> path, entries |-> <<>>, cur |-> "", total_size |-> 0,
     total_items |-> 0, at |-> "start"]

\* the last component of a path
Leaf(path) == path[Len(path)]

\* mutant: the directory test follows symlinks and nothing excludes them
ShouldRecurseFollowing(f, n) == f.kind[Resolve(f, n)] = "dir"

\* the condition under which an entry is recursed into
ShouldRecurse(f, n) == IsDir(f, n) /\ ~IsSymlink(f, n)

\* (size, item_count) of an entry that is not recursed into
LeafTotals(f, n) == <<f.len[n], 1>>

\* mutant: every entry counts as one item, whatever its item_count
AddTotalsCountsEntries(frame, size, item_count) ==
    [frame EXCEPT !.total_size = @ + size, !.total_items = @ + 1]

\* mutant: the item count is assigned instead of added
AddTotalsOverwrites(frame, size, item_count) ==
    [frame EXCEPT !.total_size = @ + size, !.total_items = item_count]

\* total_size += size; total_items += item_count
AddTotals(frame, size, item_count) ==
    [frame EXCEPT !.total_size = @ + size, !.total_items = @ + item_count]

\* Scanner::scan up to the root scan_directory call
Scan ==
    /\ pc = "call"
    /\ mode # "totals"
    /\ IF ~PathExists(fs)
          THEN /\ Emit(ErrorMsg(<<Root>>, "Path does not exist"))
               /\ pc' = "done"
               /\ result' = "returned"
               /\ UNCHANGED stack
          ELSE /\ stack' = <<NewFrame(<<Root>>)>>
               /\ pc' = "check"
               /\ NoEmit
               /\ UNCHANGED result
    /\ UNCHANGED <<fs, mode, site, ret, paused, cancelled, chan, cmds, nread, held, sent>>

\* compute_directory_totals up to the root scan_directory call
ComputeDirectoryTotals ==
    /\ pc = "call"
    /\ mode = "totals"
    /\ IF ~PathExists(fs)
          THEN /\ pc' = "done"
               /\ result' = "Err"
               /\ UNCHANGED stack
          ELSE /\ stack' = <<NewFrame(<<Root>>)>>
               /\ pc' = "check"
               /\ UNCHANGED result
    /\ UNCHANGED <<fs, mode, site, ret, paused, cancelled, chan, cmds, events,
                   pending_entries, flushed, nread, held, sent>>

\* mutant: a directory that cannot be listed aborts the whole scan
ReadDirFatal ==
    /\ pc = "readdir"
    /\ IF ReadDirOk(fs, Leaf(Top.path))
          THEN /\ stack' = SetTop([Top EXCEPT !.entries = ReadDirItems(fs, Leaf(Top.path))])
               /\ pc' = "loop"
               /\ NoEmit
               /\ UNCHANGED <<ret, cancelled>>
          ELSE /\ IF EmitEntries(mode)
                     THEN Emit(ErrorMsg(Top.path, "read_dir failed"))
                     ELSE NoEmit
               /\ ret' = <<0, 0>>
               /\ pc' = "return"
               /\ cancelled' = TRUE
               /\ UNCHANGED stack
    /\ UNCHANGED <<fs, mode, site, result, paused, chan, cmds, nread, held, sent>>

\* fs::read_dir(path) after the first checkpoint let the call continue
ReadDir ==
    /\ pc = "readdir"
    /\ IF ReadDirOk(fs, Leaf(Top.path))
          THEN /\ stack' = SetTop([Top EXCEPT !.entries = ReadDirItems(fs, Leaf(Top.path))])
               /\ pc' = "loop"
               /\ NoEmit
               /\ UNCHANGED ret
          ELSE /\ IF EmitEntries(mode)
                     THEN Emit(ErrorMsg(Top.path, "read_dir failed"))
                     ELSE NoEmit
               /\ ret' = <<0, 0>>
               /\ pc' = "return"
               /\ UNCHANGED stack
    /\ UNCHANGED <<fs, mode, site, result, paused, cancelled, chan, cmds, nread, held, sent>>

\* "for entry in entries": the next item of the iterator, or the end of the loop
ForLoop ==
    /\ pc = "loop"
    /\ IF Top.entries = <<>>
          THEN /\ IF EmitEntries(mode)
                     THEN Emit(FolderCompleteMsg(Top.path, Top.total_size))
                     ELSE NoEmit
               /\ ret' = <<Top.total_size, Top.total_items>>
               /\ pc' = "return"
               /\ UNCHANGED stack
          ELSE IF Head(Top.entries) = ReadErr
                  THEN /\ Emit(ErrorMsg(Top.path, "entry failed"))
                       /\ stack' = SetTop([Top EXCEPT !.entries = Tail(@)])
                       /\ pc' = "loop"
                       /\ UNCHANGED ret
                  ELSE /\ stack' = SetTop([Top EXCEPT !.entries = Tail(@),
                                                      !.cur = Head(Top.entries),
                                                      !.at = "entry"])
                       /\ pc' = "check"
                       /\ NoEmit
                       /\ UNCHANGED ret
    /\ UNCHANGED <<fs, mode, site, result, paused, cancelled, chan, cmds, nread, held, sent>>

\* the loop body after its checkpoint: metadata, then either the recursive
\* call or the entry's own size, its Entry event and the running totals
ProcessEntry ==
    /\ pc = "entry"
    /\ LET n == Top.cur
           entry_path == Append(Top.path, n) IN
       IF ~MetadataOk(fs, n)
          THEN /\ Emit(ErrorMsg(entry_path, "metadata failed"))
               /\ pc' = "loop"
               /\ UNCHANGED stack
          ELSE IF ShouldRecurse(fs, n)
                  THEN /\ stack' = Append(stack, NewFrame(entry_path))
                       /\ pc' = "check"
                       /\ NoEmit
                  ELSE LET t == LeafTotals(fs, n) IN
                       /\ IF EmitEntries(mode)
                             THEN EmitEntry(EntryMsg(entry_path, t[1], IsDir(fs, n),
                                                     IsSymlink(fs, n), t[2]))
                             ELSE NoEmit
                       /\ stack' = SetTop(AddTotals(Top, t[1], t[2]))
                       /\ pc' = "loop"
    /\ UNCHANGED <<fs, mode, site, ret, result, paused, cancelled, chan, cmds, nread, held, sent>>

\* a recursive scan_directory call returns (size, item_count) into the loop
\* body of its caller, which emits the directory's Entry and adds the totals
Return ==
    /\ pc = "return"
    /\ Len(stack) > 1
    /\ LET caller == stack[Len(stack) - 1]
           n == caller.cur IN
       /\ IF EmitEntries(mode)
             THEN EmitEntry(EntryMsg(Append(caller.path, n), ret[1], IsDir(fs, n),
                                     IsSymlink(fs, n), ret[2]))
             ELSE NoEmit
       /\ stack' = [SubSeq(stack, 1, Len(stack) - 1) EXCEPT
                       ![Len(stack) - 1] = AddTotals(caller, ret[1], ret[2])]
    /\ pc' = "loop"
    /\ UNCHANGED <<fs, mode, site, ret, result, paused, cancelled, chan, cmds, nread, held, sent>>

\* mutant: scan emits Done only when the scan was not cancelled
ScanDoneUnlessCancelled ==
    /\ pc = "return"
    /\ Len(stack) = 1
    /\ mode # "totals"
    /\ IF cancelled THEN NoEmit ELSE Emit(DoneMsg(ret[1], ret[2]))
    /\ stack' = <<>>
    /\ pc' = "done"
    /\ result' = "returned"
    /\ UNCHANGED <<fs, mode, site, ret, paused, cancelled, chan, cmds, nread, held, sent>>

\* the root scan_directory call returns into scan, which emits Done
ScanDone ==
    /\ pc = "return"
    /\ Len(stack) = 1
    /\ mode # "totals"
    /\ Emit(DoneMsg(ret[1], ret[2]))
    /\ stack' = <<>>
    /\ pc' = "done"
    /\ result' = "returned"
    /\ UNCHANGED <<fs, mode, site, ret, paused, cancelled, chan, cmds, nread, held, sent>>

\* the root scan_directory call returns into compute_directory_totals
TotalsDone ==
    /\ pc = "return"
    /\ Len(stack) = 1
    /\ mode = "totals"
    /\ stack' = <<>>
    /\ pc' = "done"
    /\ result' = "Ok"
    /\ UNCHANGED <<fs, mode, site, ret, paused, cancelled, chan, cmds, events,
                   pending_entries, flushed, nread, held, sent>>

(***************************************************************************)
(* scan_directory as a function: what a call returns when every checkpoint *)
(* lets it continue (no command is ever applied).                          *)
(***************************************************************************)
RECURSIVE DirTotals(_, _), LoopTotals(_, _)
DirTotals(f, n) ==
    IF ReadDirOk(f, n) THEN LoopTotals(f, ReadDirItems(f, n)) ELSE <<0, 0>>

LoopTotals(f, items) ==
    IF items = <<>> THEN <<0, 0>>
    ELSE LET n == Head(items)
             rest == LoopTotals(f, Tail(items)) IN
         IF n = ReadErr \/ ~MetadataOk(f, n) THEN rest
         ELSE LET t == IF ShouldRecurse(f, n) THEN DirTotals(f, n) ELSE LeafTotals(f, n)
              IN <<t[1] + rest[1], t[2] + rest[2]>>

\* the events of such a call made with emit_entries, in emission order
RECURSIVE DirEvents(_, _), LoopEvents(_, _, _)
DirEvents(f, path) ==
    IF ReadDirOk(f, Leaf(path))
       THEN LoopEvents(f, path, ReadDirItems(f, Leaf(path)))
            \o <<FolderCompleteMsg(path, DirTotals(f, Leaf(path))[1])>>
       ELSE <<ErrorMsg(path, "read_dir failed")>>

LoopEvents(f, path, items) ==
    IF items = <<>> THEN <<>>
    ELSE LET n == Head(items)
             entry_path == Append(path, n)
             rest == LoopEvents(f, path, Tail(items)) IN
         IF n = ReadErr THEN <<ErrorMsg(path, "entry failed")>> \o rest
         ELSE IF ~MetadataOk(f, n) THEN <<ErrorMsg(entry_path, "metadata failed")>> \o rest
         ELSE IF ShouldRecurse(f, n)
                 THEN DirEvents(f, entry_path)
                      \o <<EntryMsg(entry_path, DirTotals(f, n)[1], IsDir(f, n),
                                    IsSymlink(f, n), DirTotals(f, n)[2])>>
                      \o rest
                 ELSE <<EntryMsg(entry_path, LeafTotals(f, n)[1], IsDir(f, n),
                                 IsSymlink(f, n), LeafTotals(f, n)[2])>> \o rest

\* the events of Scanner::scan when no command is ever applied
ScanEvents(f) ==
    IF ~PathExists(f) THEN <<ErrorMsg(<<Root>>, "Path does not exist")>>
    ELSE DirEvents(f, <<Root>>) \o <<DoneMsg(DirTotals(f, Root)[1], DirTotals(f, Root)[2])>>

(***************************************************************************)
(* The specification.                                                      *)
(***************************************************************************)
\* the Scanner as constructed, and both threads at their first line
InitScanner ==
    /\ pc = "call"
    /\ site = "final"
    /\ stack = <<>>
    /\ ret = <<0, 0>>
    /\ result = "none"
    /\ paused = FALSE
    /\ cancelled = FALSE
    /\ chan = <<>>
    /\ cmds = <<>>
    /\ events = <<>>
    /\ pending_entries = 0
    /\ flushed = 0
    /\ nread = 0
    /\ held = <<>>
    /\ sent = <<>>

Init ==
    /\ fs \in FileSystems
    /\ mode \in Modes
    /\ InitScanner

Next ==
    \/ StdinLine
    \/ StdinSend
    \/ Scan
    \/ ComputeDirectoryTotals
    \/ CheckControl
    \/ TryRecv
    \/ ApplyNext
    \/ ProcessCommandsReturn
    \/ ReadDir
    \/ ForLoop
    \/ ProcessEntry
    \/ Return
    \/ ScanDone
    \/ TotalsDone

Spec == Init /\ [][Next]_vars

(***************************************************************************)
(* Vocabulary of the properties.                                           *)
(***************************************************************************)
Idx == 1 .. Len(events)

IsStatus(e, status) == e.type = "status" /\ e.status = status

Parent(path) == SubSeq(path, 1, Len(path) - 1)

LastEvent == events[Len(events)]

(***************************************************************************)
(* C1.  Once a Cancel command has been applied (Status{cancelled} is the   *)
(* event of that application), no Entry event is emitted for the rest of   *)
(* the scan, at whatever checkpoint and depth the Cancel was observed.     *)
(***************************************************************************)
C1_NoEntryAfterCancel ==
    \A i \in Idx : \A j \in Idx :
        (i < j /\ IsStatus(events[i], "cancelled")) => events[j].type # "entry"

(***************************************************************************)
(* C2.  A scan of an existing root emits Done exactly once and as the last *)
(* event: a Done event is never followed by another event, and when scan   *)
(* has returned the last event is Done, whatever commands arrived and also *)
(* when the scan was cancelled.                                            *)
(***************************************************************************)
C2_DoneOnceAndLast ==
    /\ \A i \in Idx : events[i].type = "done" => i = Len(events)
    /\ (pc = "done" /\ fs.exists /\ mode # "totals") =>
          (events # <<>> /\ LastEvent.type = "done")

C2_Witness ==
    /\ pc = "done"
    /\ mode = "main"
    /\ cancelled
    /\ events # <<>>
    /\ LastEvent.type = "done"
    /\ \E i \in Idx : IsStatus(events[i], "paused")
    /\ \E i \in Idx : events[i].type = "entry"

(***************************************************************************)
(* C3.  On a root path that does not exist, scan writes exactly one Error  *)
(* event for that path and nothing else, never calls scan_directory (so no *)
(* checkpoint is run and no directory is listed), and                      *)
(* compute_directory_totals returns an error and writes nothing.           *)
(***************************************************************************)
C3_MissingRoot ==
    ~fs.exists =>
        /\ stack = <<>>
        /\ pc \in {"call", "done"}
        /\ pc = "call" => events = <<>>
        /\ (pc = "done" /\ mode # "totals") =>
              events = <<ErrorMsg(<<Root>>, "Path does not exist")>>
        /\ (pc = "done" /\ mode = "totals") => (result = "Err" /\ events = <<>>)

C3_Witness ==
    /\ ~fs.exists
    /\ pc = "done"
    /\ mode = "main"
    /\ Len(events) = 1
    /\ sent # <<>>

(***************************************************************************)
(* C4.  A scan to which no Cancel was applied ends with the Done totals of *)
(* a scan of the same tree that receives no commands, however many Pause   *)
(* and Resume commands were applied and at whichever checkpoints; the      *)
(* scan_path entry point, which has no control channel, gives the same.    *)
(***************************************************************************)
C4_PauseResumeKeepsTotals ==
    (pc = "done" /\ fs.exists /\ mode # "totals" /\ ~cancelled) =>
        LET t == DirTotals(fs, Root) IN
        /\ events # <<>>
        /\ LastEvent = DoneMsg(t[1], t[2])

C4_Witness ==
    /\ pc = "done"
    /\ mode = "main"
    /\ fs = FsNested
    /\ ~cancelled
    /\ \A k \in 1 .. Len(sent) : sent[k] # Cancel
    /\ \E i \in Idx : \E j \in Idx :
          /\ i < j
          /\ IsStatus(events[i], "paused")
          /\ IsStatus(events[j], "resumed")
          /\ \E k \in Idx : j < k /\ events[k].type = "entry"
    /\ LastEvent = DoneMsg(38, 4)

(***************************************************************************)
(* C5.  A FolderComplete event for a directory D is never followed by an   *)
(* Entry event of a direct child of D nor by the FolderComplete event of a *)
(* direct child directory of D: all of them precede it in the stream.      *)
(***************************************************************************)
C5_FolderCompleteAfterChildren ==
    \A i \in Idx : \A j \in Idx :
        (/\ i < j
         /\ events[i].type = "complete"
         /\ events[j].type \in {"entry", "complete"})
        => Parent(events[j].path) # events[i].path

C5_Witness ==
    \E k \in Idx :
        /\ events[k].type = "complete"
        /\ events[k].path = <<Root, "sub">>
        /\ \E i \in 1 .. k - 1 :
              events[i].type = "entry" /\ events[i].path = <<Root, "sub", "b.bin">>
        /\ \E i \in 1 .. k - 1 :
              events[i].type = "entry" /\ events[i].path = <<Root, "sub", "deep">>
        /\ \E i \in 1 .. k - 1 :
              events[i].type = "complete" /\ events[i].path = <<Root, "sub", "deep">>
        /\ \E i \in 1 .. k - 1 : IsStatus(events[i], "paused")
        /\ \E i \in k + 1 .. Len(events) : IsStatus(events[i], "cancelled")

(***************************************************************************)
(* C6.  On a tree of readable directories and regular files, with no       *)
(* Cancel applied, the root scan_directory call returns the sum of the     *)
(* sizes of all files of the tree and the number of files.                 *)
(***************************************************************************)
RECURSIVE SumLen(_, _)
SumLen(f, S) ==
    IF S = {} THEN 0
    ELSE LET n == CHOOSE x \in S : TRUE IN f.len[n] + SumLen(f, S \ {n})

Files(f) == {n \in Nodes(f) : f.kind[n] = "file"}

OnlyReadableFilesAndDirs(f) ==
    /\ f.exists
    /\ f.kind[Root] = "dir"
    /\ \A n \in Nodes(f) : f.kind[n] \in {"file", "dir"}
    /\ f.unreadable = {}
    /\ f.nometa = {}
    /\ \A d \in DOMAIN f.list : \A k \in 1 .. Len(f.list[d]) : f.list[d][k] # ReadErr

C6_TotalsAreFileSums ==
    (pc = "done" /\ OnlyReadableFilesAndDirs(fs) /\ ~cancelled) =>
        ret = <<SumLen(fs, Files(fs)), Cardinality(Files(fs))>>

C6_Witness ==
    /\ pc = "done"
    /\ mode = "totals"
    /\ fs = FsNested
    /\ result = "Ok"
    /\ ret = <<38, 4>>

(***************************************************************************)
(* C7.  A symlink is never recursed into: no scan_directory call runs on a *)
(* symlink, no Entry event has a path beneath a symlink, a symlink's Entry *)
(* carries its own size and item_count 1, and it adds exactly 1 to the     *)
(* items of its parent (seen in the totals of a completed scan).           *)
(***************************************************************************)
C7_SymlinkNotRecursed ==
    /\ \A k \in 1 .. Len(stack) : ~IsSymlink(fs, Leaf(stack[k].path))
    /\ \A i \in Idx :
          events[i].type = "entry" =>
              LET path == events[i].path IN
              /\ \A k \in 1 .. Len(path) - 1 : ~IsSymlink(fs, path[k])
              /\ IsSymlink(fs, Leaf(path)) =>
                    /\ events[i].item_count = 1
                    /\ events[i].size = fs.len[Leaf(path)]
                    /\ events[i].is_symlink
    /\ (pc = "done" /\ fs = FsSymlink /\ ~cancelled) => ret = <<8 + 6 + 2, 3>>

C7_Witness ==
    /\ pc = "done"
    /\ fs = FsSymlink
    /\ ~cancelled
    /\ ret[2] = 3
    /\ \E i \in Idx : events[i].type = "entry" /\ events[i].path = <<Root, "link">>
    /\ \E i \in Idx : events[i].type = "entry" /\ events[i].path = <<Root, "loop">>
    /\ \E i \in Idx :
          events[i].type = "entry" /\ events[i].path = <<Root, "target", "inside.txt">>

(***************************************************************************)
(* C8.  Cancelled is terminal: after Status{cancelled} no Status{paused}   *)
(* and no Status{resumed} event is emitted, also for commands drained in   *)
(* the same batch as the Cancel.                                           *)
(***************************************************************************)
C8_CancelledIsTerminal ==
    \A i \in Idx : \A j \in Idx :
        (i < j /\ IsStatus(events[i], "cancelled")) =>
            ~(IsStatus(events[j], "paused") \/ IsStatus(events[j], "resumed"))

(***************************************************************************)
(* C9.  Commands are applied in the order they were sent: the Status       *)
(* events written so far, followed by the acknowledgements of the commands *)
(* collected but not yet applied and of those still in the channel, are    *)
(* the acknowledgements of the commands sent, in order.  While a dequeued  *)
(* command awaits its Status event the traversal thread is inside          *)
(* process_commands and the only event written is that Status event.       *)
(***************************************************************************)
StatusesOf(q) == [k \in 1 .. Len(q) |-> StatusOf(q[k])]

RECURSIVE EmittedStatuses(_)
EmittedStatuses(es) ==
    IF es = <<>> THEN <<>>
    ELSE IF Head(es).type = "status"
            THEN <<Head(es).status>> \o EmittedStatuses(Tail(es))
            ELSE EmittedStatuses(Tail(es))

C9_StatusesFollowSent ==
    /\ EmittedStatuses(events) \o StatusesOf(cmds) \o StatusesOf(chan) = StatusesOf(sent)
    /\ cmds # <<>> => pc \in {"recv", "apply"}

C9_AckBeforeTraversal ==
    cmds # <<>> =>
        \/ events' = events
        \/ events' = Append(events, StatusMsg(StatusOf(Head(cmds))))

C9_CommandOrder == [][C9_AckBeforeTraversal]_vars /\ []C9_StatusesFollowSent

C9_Witness ==
    /\ pc = "done"
    /\ Len(EmittedStatuses(events)) = MaxLines
    /\ chan = <<>>
    /\ \E i \in Idx : \E j \in Idx : \E k \in Idx :
          /\ i < j /\ j < k
          /\ events[i].type = "status"
          /\ events[j].type = "entry"
          /\ events[k].type = "status"
          /\ events[k - 1].type = "status"
          /\ events[k].status # events[k - 1].status

(***************************************************************************)
(* C10.  In totals-only mode (compute_directory_totals) no event of any    *)
(* kind is written, whatever the tree holds.                               *)
(***************************************************************************)
C10_TotalsOnlyIsSilent == mode = "totals" => events = <<>>

(***************************************************************************)
(* A burst of commands: main on the nested tree while the stdin reader     *)
(* reads MaxBurst refresh lines, each naming another path, so that the     *)
(* channel fills up and every command can be told from the others.         *)
(***************************************************************************)
\* Bound of the burst: how many lines the reader reads.
MaxBurst == 17

Digits == <<"0", "1", "2", "3", "4", "5", "6", "7", "8", "9">>

Str(k) == Digits[(k \div 10) + 1] \o Digits[(k % 10) + 1]

BurstLine(k) == "refresh:/r/" \o Str(k)

StdinBurst == StdinRead({BurstLine(nread + 1)}, MaxBurst)

InitBurst ==
    /\ fs = FsNested
    /\ mode = "main"
    /\ InitScanner

NextBurst ==
    \/ StdinBurst
    \/ StdinSend
    \/ Scan
    \/ CheckControl
    \/ TryRecv
    \/ ApplyNext
    \/ ProcessCommandsReturn
    \/ ReadDir
    \/ ForLoop
    \/ ProcessEntry
    \/ Return
    \/ ScanDone

SpecBurst == InitBurst /\ [][NextBurst]_vars

(***************************************************************************)
(* C11.  The channel never holds more than 16 commands; a send attempted   *)
(* while it holds 16 leaves the sender holding its command until the       *)
(* traversal thread has taken one out; the channel changes only by a       *)
(* try_recv taking its oldest command or by a send adding at its end, so   *)
(* the commands collected and those in the channel are, in order, the      *)
(* commands sent and not yet applied.                                      *)
(***************************************************************************)
C11_Pending ==
    /\ Len(chan) <= ChannelCapacity
    /\ Len(EmittedStatuses(events)) <= Len(sent)
    /\ cmds \o chan = SubSeq(sent, Len(EmittedStatuses(events)) + 1, Len(sent))

C11_Step ==
    /\ (held # <<>> /\ Len(chan) = ChannelCapacity) => (held' = held /\ sent' = sent)
    /\ chan' # chan =>
          \/ chan # <<>> /\ chan' = Tail(chan) /\ cmds' = Append(cmds, Head(chan))
          \/ held # <<>> /\ chan' = Append(chan, held[1]) /\ sent' = Append(sent, held[1])

C11_BoundedChannel == []C11_Pending /\ [][C11_Step]_vars

C11_Witness ==
    /\ Len(chan) = ChannelCapacity
    /\ held # <<>>
    /\ pc \in {"readdir", "loop", "entry", "return"}

(***************************************************************************)
(* C12.  In a finished streaming scan to which no Cancel was applied, a    *)
(* directory that cannot be listed has exactly one Error event, its Entry  *)
(* carries size 0 and item_count 0, every later sibling that can be read   *)
(* has its Entry after that Error with the values it has when the          *)
(* directory is empty instead, and the root totals are those of the tree   *)
(* with the unreadable directories empty.                                  *)
(***************************************************************************)
NoCancelApplied == \A i \in Idx : ~IsStatus(events[i], "cancelled")

\* the same tree with its unreadable directories readable and empty
AsEmpty(f) ==
    [f EXCEPT !.unreadable = {},
              !.list = [d \in DOMAIN f.list |->
                          IF d \in f.unreadable THEN <<>> ELSE f.list[d]]]

ErrorsFor(d) == {i \in Idx : events[i].type = "error" /\ Leaf(events[i].path) = d}

C12_UnreadableDirectory ==
    /\ \A d \in fs.unreadable : Cardinality(ErrorsFor(d)) <= 1
    /\ (pc = "done" /\ mode # "totals" /\ fs.exists /\ NoCancelApplied) =>
          /\ ret = DirTotals(AsEmpty(fs), Root)
          /\ \A d \in fs.unreadable :
                /\ Cardinality(ErrorsFor(d)) = 1
                /\ \E i \in Idx :
                      /\ events[i].type = "entry"
                      /\ Leaf(events[i].path) = d
                      /\ events[i].size = 0
                      /\ events[i].item_count = 0
                /\ \A p \in DOMAIN fs.list :
                      \A k \in 1 .. Len(fs.list[p]) : \A m \in 1 .. Len(fs.list[p]) :
                          LET sib == fs.list[p][m] IN
                          (/\ k < m
                           /\ fs.list[p][k] = d
                           /\ sib # ReadErr
                           /\ MetadataOk(fs, sib))
                          => \E i \in ErrorsFor(d) : \E j \in Idx :
                                LET t == IF IsDir(fs, sib)
                                            THEN DirTotals(AsEmpty(fs), sib)
                                            ELSE <<fs.len[sib], 1>> IN
                                /\ i < j
                                /\ events[j].type = "entry"
                                /\ Leaf(events[j].path) = sib
                                /\ events[j].size = t[1]
                                /\ events[j].item_count = t[2]

C12_Witness ==
    /\ pc = "done"
    /\ mode = "main"
    /\ fs = FsErrors
    /\ NoCancelApplied
    /\ ret = <<7, 1>>
    /\ \E i \in Idx : IsStatus(events[i], "paused")
    /\ \E i \in Idx : events[i].type = "error" /\ events[i].path = <<Root, "locked">>

(***************************************************************************)
(* C13.  As claimed: the item_count of an Entry is 1 when the entry is not *)
(* a recursed directory, and for a recursed directory it is the number of  *)
(* entries scanned beneath it at every depth, subdirectories included.     *)
(***************************************************************************)
Beneath(q, p) == Len(q) > Len(p) /\ SubSeq(q, 1, Len(p)) = p

Recursed(e) == e.is_dir /\ ~e.is_symlink

EntriesBeneath(i) ==
    {j \in 1 .. i - 1 :
        events[j].type = "entry" /\ Beneath(events[j].path, events[i].path)}

C13_ItemCountAllDescendants ==
    \A i \in Idx :
        events[i].type = "entry" =>
            events[i].item_count =
                IF Recursed(events[i]) THEN Cardinality(EntriesBeneath(i)) ELSE 1

(***************************************************************************)
(* C13, amended.  The item_count of an Entry is 1 when the entry is not a  *)
(* recursed directory, and for a recursed directory it is the number of    *)
(* entries other than recursed directories (files and symlinks) scanned    *)
(* beneath it at every depth: a subdirectory adds its own item_count and   *)
(* nothing for itself.                                                     *)
(***************************************************************************)
C13_ItemCountLeafDescendants ==
    \A i \in Idx :
        events[i].type = "entry" =>
            events[i].item_count =
                IF Recursed(events[i])
                   THEN Cardinality({j \in EntriesBeneath(i) : ~Recursed(events[j])})
                   ELSE 1

C13_Witness ==
    \E i \in Idx :
        /\ events[i].type = "entry"
        /\ events[i].path = <<Root, "sub">>
        /\ events[i].item_count = 2
        /\ Cardinality(EntriesBeneath(i)) = 3

(***************************************************************************)
(* C14.  In every streaming scan, cancelled or not, the totals of Done are *)
(* the sum of the sizes and the number of the Entry events of entries that *)
(* are not recursed directories, and the size and item_count of the Entry  *)
(* of a recursed directory are the sum and number of such Entry events     *)
(* emitted for paths beneath it.                                           *)
(***************************************************************************)
RECURSIVE SumSize(_)
SumSize(S) ==
    IF S = {} THEN 0
    ELSE LET j == CHOOSE x \in S : TRUE IN events[j].size + SumSize(S \ {j})

LeafEntries == {j \in Idx : events[j].type = "entry" /\ ~Recursed(events[j])}

C14_TotalsMatchEntries ==
    /\ (events # <<>> /\ LastEvent.type = "done") =>
          /\ LastEvent.total_size = SumSize(LeafEntries)
          /\ LastEvent.total_items = Cardinality(LeafEntries)
    /\ \A i \in Idx :
          (events[i].type = "entry" /\ Recursed(events[i])) =>
              /\ events[i].size = SumSize(EntriesBeneath(i) \cap LeafEntries)
              /\ events[i].item_count = Cardinality(EntriesBeneath(i) \cap LeafEntries)

C14_Witness ==
    /\ pc = "done"
    /\ events # <<>>
    /\ LastEvent = DoneMsg(30, 2)
    /\ \E c \in Idx : \E i \in Idx :
          /\ c < i
          /\ IsStatus(events[c], "cancelled")
          /\ events[i] = EntryMsg(<<Root, "sub">>, 20, TRUE, FALSE, 1)

(***************************************************************************)
(* C15.  When the checkpoint of the scan_directory call for directory D    *)
(* signals cancellation, the call returns at once with the totals it has   *)
(* accumulated ((0, 0) at the start checkpoint), visits no further entry   *)
(* of D and emits no FolderComplete for D: the step in which check_control *)
(* returns while cancelled leaves the call at its return with those totals *)
(* and without a new event, D has no FolderComplete so far, the return     *)
(* pops D's frame emitting no FolderComplete, a FolderComplete is emitted  *)
(* only by the innermost call for its own path at the end of its loop, and *)
(* once cancelled no directory is entered again.                           *)
(***************************************************************************)
NewEvents == SubSeq(events', Len(events) + 1, Len(events'))

InCheckControl(p) == p \in {"check", "recv", "apply"}

\* check_control returns in this step and the scan is cancelled
CheckpointSignals == InCheckControl(pc) /\ ~InCheckControl(pc') /\ cancelled'

HasFolderComplete(path) ==
    \E i \in Idx : events[i].type = "complete" /\ events[i].path = path

C15_Stop ==
    CheckpointSignals =>
        /\ pc' = "return"
        /\ stack' = stack
        /\ events' = events
        /\ ret' = IF Top.at = "start" THEN <<0, 0>>
                  ELSE <<Top.total_size, Top.total_items>>
        /\ ~HasFolderComplete(Top.path)

C15_Pop ==
    (pc = "return" /\ cancelled) =>
        \/ pc' = pc /\ stack' = stack /\ events' = events
        \/ /\ Len(stack') = Len(stack) - 1
           /\ \A k \in 1 .. Len(NewEvents) : NewEvents[k].type # "complete"

C15_CompleteSite ==
    \A k \in 1 .. Len(NewEvents) :
        NewEvents[k].type = "complete" =>
            /\ pc = "loop"
            /\ Top.entries = <<>>
            /\ NewEvents[k].path = Top.path

C15_NoEntryAfter == cancelled => (cancelled' /\ Len(stack') <= Len(stack))

C15_CancelledCallReturns ==
    [][C15_Stop /\ C15_Pop /\ C15_CompleteSite /\ C15_NoEntryAfter]_vars

C15_Witness ==
    /\ pc = "return"
    /\ cancelled
    /\ stack # <<>>
    /\ Top.at = "entry"
    /\ Top.entries # <<>>
    /\ ret = <<Top.total_size, Top.total_items>>
    /\ ret[2] > 0

(***************************************************************************)
(* C16.  A Refresh(path) command changes neither flag and starts no        *)
(* traversal: applying it appends one Status{refreshing:<path>} event and  *)
(* leaves the flags, the stack, the pending return value and the position  *)
(* of the traversal as they are, and a finished scan in which only Refresh *)
(* commands were applied has emitted exactly the Entry, FolderComplete,    *)
(* Error and Done events of the scan without commands, in the same order.  *)
(***************************************************************************)
Traversal(es) == SelectSeq(es, LAMBDA e : e.type # "status")

OnlyRefreshApplied ==
    \A i \in Idx : events[i].type = "status" =>
        events[i].status \notin {"paused", "resumed", "cancelled"}

C16_RefreshStep ==
    (pc = "apply" /\ cmds # <<>> /\ Head(cmds).op = "Refresh" /\ cmds' # cmds) =>
        /\ paused' = paused
        /\ cancelled' = cancelled
        /\ stack' = stack
        /\ ret' = ret
        /\ pc' = pc
        /\ events' = Append(events, StatusMsg("refreshing:" \o Head(cmds).path))

C16_RefreshOnly ==
    (pc = "done" /\ mode # "totals" /\ OnlyRefreshApplied) =>
        Traversal(events) = ScanEvents(fs)

C16_RefreshIsNotification == []C16_RefreshOnly /\ [][C16_RefreshStep]_vars

C16_Witness ==
    /\ pc = "done"
    /\ fs = FsNested
    /\ OnlyRefreshApplied
    /\ \E i \in Idx : \E j \in Idx : \E k \in Idx :
          /\ i < j /\ j < k
          /\ events[i].type = "entry"
          /\ IsStatus(events[j], "refreshing:/r/sub")
          /\ events[k].type = "entry"

(***************************************************************************)
(* The scan of a wide directory through scan_path (lib.rs): one directory  *)
(* with about FlushBatchSize files and one failing item in its listing, so *)
(* that the writer's batch threshold is reached.                           *)
(***************************************************************************)
\* Bound of the wide directory: the largest number of files in it.
WideFiles == 257

FileName(k) == "f" \o Digits[(k \div 100) + 1] \o Str(k % 100)

WideNames(n) == {FileName(k) : k \in 1 .. n}

\* n files of one byte each; the listing yields an Err item after the first e
FsWide(n, e) ==
    [exists |-> TRUE,
     kind |-> [x \in {Root} \cup WideNames(n) |-> IF x = Root THEN "dir" ELSE "file"],
     len |-> [x \in {Root} \cup WideNames(n) |-> IF x = Root THEN 64 ELSE 1],
     list |-> [x \in {Root} |->
                 [k \in 1 .. n + 1 |->
                     IF k <= e THEN FileName(k)
                     ELSE IF k = e + 1 THEN ReadErr
                     ELSE FileName(k - 1)]],
     target |-> [x \in {} |-> ""],
     unreadable |-> {},
     nometa |-> {}]

InitWide ==
    /\ fs \in {FsWide(n, e) : n \in {WideFiles - 1, WideFiles}, e \in {0, 1, WideFiles - 1}}
    /\ mode = "scan_path"
    /\ InitScanner

NextWide ==
    \/ Scan
    \/ CheckControl
    \/ TryRecv
    \/ ProcessCommandsReturn
    \/ ReadDir
    \/ ForLoop
    \/ ProcessEntry
    \/ ScanDone

SpecWide == InitWide /\ [][NextWide]_vars

(***************************************************************************)
(* C17.  Every event other than an Entry is flushed by the call that       *)
(* writes it, together with everything written before it, so whenever the  *)
(* last event is a Status, Error, FolderComplete or Done no emitted event  *)
(* is unflushed; only Entry events are ever unflushed, they are the Entry  *)
(* events written since the last flush, and there are fewer than 256 of    *)
(* them after each write.                                                  *)
(***************************************************************************)
C17_FlushDiscipline ==
    /\ flushed <= Len(events)
    /\ Len(events) - flushed = pending_entries
    /\ pending_entries < FlushBatchSize
    /\ \A i \in flushed + 1 .. Len(events) : events[i].type = "entry"
    /\ (events # <<>> /\ LastEvent.type # "entry") => flushed = Len(events)

\* the 256th Entry since the last flush has just been written, after an Error
\* that was flushed with the Entry before it
C17_Witness ==
    /\ events # <<>>
    /\ LastEvent.type = "entry"
    /\ flushed = Len(events)
    /\ Len(events) = FlushBatchSize + 2
    /\ events[2].type = "error"

(***************************************************************************)
(* C18.  While the scan is paused it produces no traversal output: between *)
(* a Status{paused} event and the next Status{resumed} or                  *)
(* Status{cancelled} event no Entry, FolderComplete or Error event is      *)
(* emitted, at whichever checkpoint the Pause was consumed.                *)
(***************************************************************************)
C18_SilentWhilePaused ==
    \A i \in Idx : \A j \in Idx :
        (/\ i < j
         /\ IsStatus(events[i], "paused")
         /\ events[j].type \in {"entry", "complete", "error"}) =>
            \E k \in i + 1 .. j - 1 :
                IsStatus(events[k], "resumed") \/ IsStatus(events[k], "cancelled")

(***************************************************************************)
(* C19.  Status{paused} and Status{resumed} are emitted only on real state *)
(* transitions, so in any output stream the paused/resumed Status events   *)
(* strictly alternate, starting with paused.                               *)
(***************************************************************************)
PauseResumeStatuses ==
    SelectSeq(EmittedStatuses(events), LAMBDA st : st \in {"paused", "resumed"})

C19_PausedResumedAlternate ==
    \A k \in 1 .. Len(PauseResumeStatuses) :
        PauseResumeStatuses[k] = IF k % 2 = 1 THEN "paused" ELSE "resumed"

(***************************************************************************)
(* C20.  (second half) A scan that is paused when the command sender has   *)
(* finished without a Resume or Cancel left to deliver stays in the wait   *)
(* loop of check_control and never emits Done: once the reader has read    *)
(* its last line and no command is held, in the channel or collected,      *)
(* a paused and not cancelled scan never reaches the end of scan.          *)
(***************************************************************************)
SenderClosed == nread = MaxLines /\ held = <<>> /\ chan = <<>> /\ cmds = <<>>

C20_PausedNeverDone ==
    [][(SenderClosed /\ paused /\ ~cancelled /\ pc # "done") => pc' # "done"]_vars

(***************************************************************************)
(* The first half of C20, for the record: the traversal thread runs        *)
(* whenever it can (it is the main thread, and its wait loop only sleeps), *)
(* and then on every tree, symlink cycles included, the scan ends or       *)
(* stays paused for ever.                                                  *)
(***************************************************************************)
TraversalStep ==
    \/ Scan
    \/ ComputeDirectoryTotals
    \/ CheckControl
    \/ TryRecv
    \/ ApplyNext
    \/ ProcessCommandsReturn
    \/ ReadDir
    \/ ForLoop
    \/ ProcessEntry
    \/ Return
    \/ ScanDone
    \/ TotalsDone

SpecFair == Spec /\ WF_vars(TraversalStep)

C20_EndsOrStaysPaused == <>(pc = "done") \/ <>[](paused /\ ~cancelled)

====
